---- MODULE Spec2Model ----
(***************************************************************************)
(* Verification model of ztp-pipeline-relocatable:                         *)
(*   - ztp/internal/template.go  (TemplateBuilder, Template)               *)
(*   - deploy-spoke/wait_for_spoke.sh                                      *)
(*   - the manifest push script (retry loops against the assisted service) *)
(* Text is modelled as sequences of byte values, paths as sequences of     *)
(* path components.                                                        *)
(***************************************************************************)
EXTENDS Integers, Sequences, FiniteSets, TLC

VARIABLES
    b,            \* TemplateBuilder: [logger, fsys, dir]
    tpl,          \* the Template the caller holds (the last Build's result)
    setCalls,     \* names of the builder setters called so far
    built,        \* outcome of the last Build: [called, result, err, t, log]
    snapshot,     \* the list a caller got from Names() and owns: [taken, names]
    last,         \* the last Execute: [called, name, data, writer, err, rendered, dest, writes]
    calls,        \* concurrent callers: caller -> [pc, name, data, pos, err, dest, overlapped]
    buffers,      \* concurrent callers: buffer id -> bytes
    sh,           \* wait_for_spoke.sh: [pc, argc, cond, timeout, ready, status, polls, polled, verified]
    push          \* manifest push script: [pc, CLUSTER_ID, retry, EXIT, posted, accepted]

vars == <<b, tpl, setCalls, built, snapshot, last, calls, buffers, sh, push>>

-----------------------------------------------------------------------------
(* Generic helpers *)

Min(x, y) == IF x < y THEN x ELSE y

Range(s) == {s[i] : i \in 1..Len(s)}

IsPrefix(p, s) == Len(p) <= Len(s) /\ SubSeq(s, 1, Len(p)) = p

NoDuplicates(s) == \A i, j \in 1..Len(s) : i # j => s[i] # s[j]

-----------------------------------------------------------------------------
(* Text produced by the template functions *)

\* fmt / strconv: decimal form of a non-negative integer
RECURSIVE Decimal(_)
Decimal(n) ==
    IF n < 10 THEN <<48 + n>> ELSE Decimal(n \div 10) \o <<48 + (n % 10)>>

\* fmt.Fprint of a []byte value: [104 105]
RECURSIVE joinDecimals(_)
joinDecimals(s) ==
    IF Len(s) = 0 THEN <<>>
    ELSE IF Len(s) = 1 THEN Decimal(s[1])
    ELSE Decimal(s[1]) \o <<32>> \o joinDecimals(Tail(s))

\* base64.StdEncoding alphabet
encodeStd(i) ==
    IF i < 26 THEN 65 + i
    ELSE IF i < 52 THEN 97 + (i - 26)
    ELSE IF i < 62 THEN 48 + (i - 52)
    ELSE IF i = 62 THEN 43 ELSE 47

\* base64.StdEncoding.EncodeToString: 3 bytes -> 4 characters, '=' padding
RECURSIVE EncodeToString(_)
EncodeToString(src) ==
    IF Len(src) = 0 THEN <<>>
    ELSE IF Len(src) = 1 THEN
        <<encodeStd(src[1] \div 4), encodeStd((src[1] % 4) * 16), 61, 61>>
    ELSE IF Len(src) = 2 THEN
        <<encodeStd(src[1] \div 4),
          encodeStd((src[1] % 4) * 16 + src[2] \div 16),
          encodeStd((src[2] % 16) * 4), 61>>
    ELSE
        <<encodeStd(src[1] \div 4),
          encodeStd((src[1] % 4) * 16 + src[2] \div 16),
          encodeStd((src[2] % 16) * 4 + src[3] \div 64),
          encodeStd(src[3] % 64)>>
        \o EncodeToString(SubSeq(src, 4, Len(src)))

hex == <<48, 49, 50, 51, 52, 53, 54, 55, 56, 57, 97, 98, 99, 100, 101, 102>>

\* encoding/json: one byte of a string, escaped (HTML escaping is on in Marshal)
jsonEscape(c) ==
    IF c = 34 THEN <<92, 34>>
    ELSE IF c = 92 THEN <<92, 92>>
    ELSE IF c = 10 THEN <<92, 110>>
    ELSE IF c = 13 THEN <<92, 114>>
    ELSE IF c = 9 THEN <<92, 116>>
    ELSE IF c < 32 \/ c \in {60, 62, 38} THEN
        <<92, 117, 48, 48, hex[(c \div 16) + 1], hex[(c % 16) + 1]>>
    ELSE <<c>>

RECURSIVE jsonEscapes(_)
jsonEscapes(s) ==
    IF Len(s) = 0 THEN <<>> ELSE jsonEscape(s[1]) \o jsonEscapes(Tail(s))

jsonString(s) == <<34>> \o jsonEscapes(s) \o <<34>>

-----------------------------------------------------------------------------
(* Execution inputs: the values passed as data *)

StrVal(s) == [kind |-> "string", s |-> s, n |-> 0]
BytesVal(s) == [kind |-> "bytes", s |-> s, n |-> 0]
IntVal(n) == [kind |-> "int", s |-> <<>>, n |-> n]

\* a function result or failure
Ok(s) == [err |-> "nil", out |-> s]
Fail(e, s) == [err |-> e, out |-> s]

\* template.go base64Func
base64Func(value) ==
    IF value.kind \in {"bytes", "string", "stringer"}
    THEN Ok(EncodeToString(value.s))
    ELSE Fail("don't know how to encode value", <<>>)

\* template.go jsonFunc (json.Marshal: strings quoted and escaped, []byte as
\* a Base64 string, integers in decimal, channels and functions unsupported)
jsonFunc(data) ==
    IF data.kind = "string" THEN Ok(jsonString(data.s))
    ELSE IF data.kind = "bytes" THEN Ok(jsonString(EncodeToString(data.s)))
    ELSE IF data.kind = "int" THEN Ok(Decimal(data.n))
    ELSE Fail("json: unsupported type", <<>>)

\* text/template printing of {{ . }}
printValue(data) ==
    IF data.kind = "string" THEN Ok(data.s)
    ELSE IF data.kind = "bytes" THEN Ok(<<91>> \o joinDecimals(data.s) \o <<93>>)
    ELSE IF data.kind = "int" THEN Ok(Decimal(data.n))
    ELSE Fail("can't print value", <<>>)

-----------------------------------------------------------------------------
(* Template text.  A unit's text is a sequence of nodes:                   *)
(*   text            literal bytes                                         *)
(*   dot             {{ . }}                                               *)
(*   call fn         {{ fn . }}                                            *)
(*   execute name fn {{ execute "name" . }} or {{ execute "name" . | fn }} *)
(*   unclosed        an action that is never closed (a syntax error)       *)

Text(s) == [k |-> "text", text |-> s, name |-> <<>>, fn |-> ""]
Dot == [k |-> "dot", text |-> <<>>, name |-> <<>>, fn |-> ""]
Call(fn) == [k |-> "call", text |-> <<>>, name |-> <<>>, fn |-> fn]
Execute_(name, fn) == [k |-> "execute", text |-> <<>>, name |-> name, fn |-> fn]
Unclosed == [k |-> "unclosed", text |-> <<>>, name |-> <<>>, fn |-> ""]

\* template.go Build: the function table registered before parsing
FuncMap == {"base64", "execute", "json"}

-----------------------------------------------------------------------------
(* Source filesystems (fs.FS): path -> entry *)

File(text) == [kind |-> "file", text |-> text, ioerr |-> FALSE]
Unreadable == [kind |-> "file", text |-> <<>>, ioerr |-> TRUE]
Dir == [kind |-> "dir", text |-> <<>>, ioerr |-> FALSE]
LockedDir == [kind |-> "dir", text |-> <<>>, ioerr |-> TRUE]

hi == <<104, 105>>

\* a tree whose units all parse
Manifests ==
    (<<>> :> Dir)
    @@ (<<"inner.tmpl">> :> File(<<Dot>>))
    @@ (<<"outer.tmpl">> :> File(<<Text(<<120>>), Execute_(<<"inner.tmpl">>, "base64")>>))
    @@ (<<"sub">> :> Dir)
    @@ (<<"sub", "b64.tmpl">> :> File(<<Text(<<107, 61>>), Call("base64")>>))
    @@ (<<"sub", "broken.tmpl">> :> File(<<Text(<<97, 98>>), Execute_(<<"missing.tmpl">>, "")>>))
    @@ (<<"sub", "env.tmpl">> :> File(<<Call("json")>>))
    @@ (<<"wrap.tmpl">> :> File(<<Execute_(<<"sub", "env.tmpl">>, "json")>>))

\* a tree with a directory that cannot be listed, a file that cannot be read
\* and files that do not parse
Broken ==
    (<<>> :> Dir)
    @@ (<<"io">> :> Dir)
    @@ (<<"io", "a.tmpl">> :> File(<<Text(hi)>>))
    @@ (<<"io", "b.tmpl">> :> Unreadable)
    @@ (<<"io", "c.tmpl">> :> File(<<Dot>>))
    @@ (<<"locked">> :> LockedDir)
    @@ (<<"syntax">> :> Dir)
    @@ (<<"syntax", "a.tmpl">> :> File(<<Text(hi)>>))
    @@ (<<"syntax", "b.tmpl">> :> File(<<Text(hi), Unclosed>>))
    @@ (<<"syntax", "c.tmpl">> :> File(<<Call("undefined")>>))
    @@ (<<"syntax", "d.tmpl">> :> File(<<Dot>>))

Tree(fsys) == IF fsys = "manifests" THEN Manifests ELSE Broken

\* the values SetFS is called with ("nil" is the nil interface)
Filesystems == {"nil", "manifests", "broken"}

\* the values SetDir is called with; <<>> is the empty string
Dirs == {<<>>, <<".">>, <<"..">>, <<"sub">>, <<"absent">>, <<"wrap.tmpl">>,
         <<"io">>, <<"syntax">>, <<"locked">>}

\* the values SetLogger is called with: a logger with a sink, or one without
Loggers == {"sink", "nil"}

\* file and directory names in the byte order fs.ReadDir sorts them by
NameOrder == <<"a.tmpl", "b.tmpl", "b64.tmpl", "broken.tmpl", "c.tmpl", "d.tmpl",
               "env.tmpl", "inner.tmpl", "io", "locked", "outer.tmpl", "sub",
               "syntax", "wrap.tmpl">>

Rank(n) == CHOOSE i \in 1..Len(NameOrder) : NameOrder[i] = n

\* fs.ReadDir: the names of a directory's entries, sorted by name
RECURSIVE sorted(_)
sorted(S) ==
    IF S = {} THEN <<>>
    ELSE LET m == CHOOSE x \in S : \A y \in S : Rank(x) <= Rank(y)
         IN <<m>> \o sorted(S \ {m})

\* fs.ValidPath, as fs.Sub applies it to dir
ValidPath(dir) == dir = <<".">> \/ (\A i \in 1..Len(dir) : dir[i] \notin {".", "..", ""})

\* A filesystem value: a tree seen from a root (fs.Sub narrows the root)
FS(fsys) == [tree |-> Tree(fsys), root |-> <<>>]

\* fs.Sub
Sub(fsys, dir) ==
    IF ~ValidPath(dir) THEN [err |-> "sub: invalid name", fsys |-> fsys]
    ELSE IF dir = <<".">> THEN [err |-> "nil", fsys |-> fsys]
    ELSE [err |-> "nil", fsys |-> [tree |-> fsys.tree, root |-> fsys.root \o dir]]

\* the full path of a name of a (narrowed) filesystem
fullName(fsys, name) == IF name = <<".">> THEN fsys.root ELSE fsys.root \o name

\* path.Join(name, entry name) during the walk
Join(name, base) == IF name = <<".">> THEN <<base>> ELSE Append(name, base)

\* fs.ReadDir entries of a directory
ReadDir(fsys, name) ==
    LET p == fullName(fsys, name)
    IN sorted({q[Len(q)] : q \in {r \in DOMAIN fsys.tree :
                   Len(r) = Len(p) + 1 /\ SubSeq(r, 1, Len(p)) = p}})

-----------------------------------------------------------------------------
(* Template: discovery and parsing *)

\* the nil *Template and the object Build creates (template.go:93)
NilTemplate == [nil |-> TRUE, names |-> <<>>, tmpl |-> <<>>, funcs |-> {}]
NewTemplate_ == [nil |-> FALSE, names |-> <<>>, tmpl |-> <<>>, funcs |-> FuncMap]

\* the callback of findFiles with a nil err: for a directory it returns nil
\* and the walk goes on into it, every other entry's name is appended to
\* t.names.  ret is what the callback returns to fs.WalkDir.
visitSkipDir(names, name, entry) ==
    IF entry.kind = "dir" THEN [names |-> names, ret |-> "SkipDir"]
    ELSE [names |-> Append(names, name), ret |-> "nil"]
visit(names, name, entry) ==
    IF entry.kind = "dir" THEN [names |-> names, ret |-> "nil"]
    ELSE [names |-> Append(names, name), ret |-> "nil"]

\* fs.WalkDir below the root: the callback on the entry, then, for a
\* directory the callback did not skip, its entries in ReadDir order; the
\* first error ends the walk
RECURSIVE walkDir(_, _, _)
RECURSIVE walkEntries(_, _, _, _)
walkDir(fsys, name, acc) ==
    LET entry == fsys.tree[fullName(fsys, name)]
        called == visit(acc.names, name, entry)
        seen == [acc EXCEPT !.names = called.names]
    IN IF entry.kind # "dir" \/ called.ret = "SkipDir" THEN seen
       ELSE LET listed == [seen EXCEPT !.log = Append(@, [op |-> "ReadDir", name |-> name])]
            IN IF entry.ioerr THEN [listed EXCEPT !.err = "readdir: permission denied"]
               ELSE walkEntries(fsys, name, ReadDir(fsys, name), listed)
walkEntries(fsys, name, entries, acc) ==
    IF entries = <<>> \/ acc.err # "nil" THEN acc
    ELSE walkEntries(fsys, name, Tail(entries),
                     walkDir(fsys, Join(name, Head(entries)), acc))

\* template.go findFiles: fs.WalkDir(fsys, ".", ...) appending to t.names
findFiles(t, fsys, log) ==
    LET stat == Append(log, [op |-> "Stat", name |-> <<".">>])
        acc == [names |-> t.names, err |-> "nil", log |-> stat]
        walked == IF fsys.root \notin DOMAIN fsys.tree
                  THEN [acc EXCEPT !.err = "stat: file does not exist"]
                  ELSE walkDir(fsys, <<".">>, acc)
    IN [t |-> [t EXCEPT !.names = walked.names], err |-> walked.err, log |-> walked.log]

\* text/template Parse: an unclosed action or a function that is not in the
\* function table is an error
Parses(t, text) ==
    \A i \in 1..Len(text) :
        /\ text[i].k # "unclosed"
        /\ text[i].k = "call" => text[i].fn \in t.funcs
        /\ text[i].k = "execute" =>
               "execute" \in t.funcs /\ text[i].fn \in t.funcs \cup {""}

\* template.go parseFile: fs.ReadFile, then t.template.New(name).Parse(text)
parseFile(t, fsys, name, log) ==
    LET exists == fullName(fsys, name) \in DOMAIN fsys.tree
        entry == fsys.tree[fullName(fsys, name)]
        read == Append(log, [op |-> "ReadFile", name |-> name])
    IN IF ~exists
       THEN [t |-> t, err |-> "open: file does not exist", log |-> read]
       ELSE IF entry.ioerr \/ entry.kind = "dir"
       THEN [t |-> t, err |-> "read: input/output error", log |-> read]
       ELSE IF ~Parses(t, entry.text)
       THEN [t |-> t, err |-> "template: syntax error", log |-> read]
       ELSE [t |-> [t EXCEPT !.tmpl = (name :> entry.text) @@ @],
             err |-> "nil", log |-> read]

\* template.go parseFiles: the names in order, returning the first error
RECURSIVE parseFrom(_, _, _, _)
parseFrom(t, fsys, i, log) ==
    IF i > Len(t.names) THEN [t |-> t, err |-> "nil", log |-> log]
    ELSE LET one == parseFile(t, fsys, t.names[i], log)
         IN IF one.err # "nil" THEN one
            ELSE parseFrom(one.t, fsys, i + 1, one.log)

parseFiles(t, fsys, log) == parseFrom(t, fsys, 1, log)

\* template.go Build, "Check parameters"
checkFilesystem(bb) ==
    IF bb.fsys = "nil" THEN "filesystem is mandatory" ELSE "nil"
checkParameters(bb) ==
    IF bb.logger = "nil" THEN "logger is mandatory"
    ELSE IF bb.fsys = "nil" THEN "filesystem is mandatory"
    ELSE "nil"

\* template.go Build, after the parameter check: narrow, discover, parse
buildKeepPartial(bb) ==
    LET sub == IF bb.dir # <<>> THEN Sub(FS(bb.fsys), bb.dir)
               ELSE [err |-> "nil", fsys |-> FS(bb.fsys)]
        log0 == IF bb.dir # <<>> THEN <<[op |-> "Sub", name |-> bb.dir]>> ELSE <<>>
        found == findFiles(NewTemplate_, sub.fsys, log0)
        parsed == parseFiles(found.t, sub.fsys, found.log)
    IN IF sub.err # "nil"
       THEN [result |-> NilTemplate, err |-> sub.err, t |-> NilTemplate, log |-> log0]
       ELSE IF found.err # "nil"
       THEN [result |-> found.t, err |-> found.err, t |-> found.t, log |-> found.log]
       ELSE [result |-> parsed.t, err |-> parsed.err, t |-> parsed.t, log |-> parsed.log]
buildFiles(bb) ==
    LET sub == IF bb.dir # <<>> THEN Sub(FS(bb.fsys), bb.dir)
               ELSE [err |-> "nil", fsys |-> FS(bb.fsys)]
        log0 == IF bb.dir # <<>> THEN <<[op |-> "Sub", name |-> bb.dir]>> ELSE <<>>
        found == findFiles(NewTemplate_, sub.fsys, log0)
        parsed == parseFiles(found.t, sub.fsys, found.log)
    IN IF sub.err # "nil"
       THEN [result |-> NilTemplate, err |-> sub.err, t |-> NilTemplate, log |-> log0]
       ELSE IF found.err # "nil"
       THEN [result |-> NilTemplate, err |-> found.err, t |-> found.t, log |-> found.log]
       ELSE IF parsed.err # "nil"
       THEN [result |-> NilTemplate, err |-> parsed.err, t |-> parsed.t, log |-> parsed.log]
       ELSE [result |-> parsed.t, err |-> "nil", t |-> parsed.t, log |-> parsed.log]

\* template.go Build: result is the returned *Template, t the object Build
\* worked on, log the accesses it made to the source filesystem
BuildOf(bb) ==
    IF checkParameters(bb) # "nil"
    THEN [result |-> NilTemplate, err |-> checkParameters(bb),
          t |-> NilTemplate, log |-> <<>>]
    ELSE buildFiles(bb)

-----------------------------------------------------------------------------
(* Template: execution *)

\* text/template Lookup: the unit registered under the name, if any
Lookup(t, name) == name \in DOMAIN t.tmpl

\* the functions of the function table, applied to a value
callFunc(fn, value) ==
    IF fn = "base64" THEN base64Func(value) ELSE jsonFunc(value)

\* text/template execution of a unit's nodes from node i on, appending to
\* the buffer: [err, out], out being what the buffer then holds.
\* executeFunc renders the named unit into a buffer of its own and returns
\* the text; it calls Execute on what Lookup returned without testing it, and
\* on a nil *Template that is a nil pointer dereference, which text/template
\* recovers from the function call and reports as the call's error.
RECURSIVE walk(_, _, _, _, _)
RECURSIVE executeFunc(_, _, _)
walk(t, text, i, data, buffer) ==
    IF i > Len(text) THEN Ok(buffer)
    ELSE LET node == text[i]
             value == IF node.k = "text" THEN Ok(node.text)
                      ELSE IF node.k = "dot" THEN printValue(data)
                      ELSE IF node.k = "call" THEN callFunc(node.fn, data)
                      ELSE LET executed == executeFunc(t, node.name, data)
                           IN IF executed.err # "nil" \/ node.fn = "" THEN executed
                              ELSE callFunc(node.fn, StrVal(executed.out))
         IN IF value.err # "nil" THEN Fail(value.err, buffer)
            ELSE walk(t, text, i + 1, data, buffer \o value.out)
executeFunc(t, name, data) ==
    IF ~Lookup(t, name)
    THEN Fail("runtime error: invalid memory address or nil pointer dereference", <<>>)
    ELSE LET executed == walk(t, t.tmpl[name], 1, data, <<>>)
         IN IF executed.err # "nil" THEN Fail(executed.err, <<>>)
            ELSE Ok(executed.out)

\* text/template ExecuteTemplate(buffer, name, data)
ExecuteTemplateLenient(t, name, data) ==
    IF ~Lookup(t, name) THEN Ok(<<>>)
    ELSE walk(t, t.tmpl[name], 1, data, <<>>)
ExecuteTemplate(t, name, data) ==
    IF ~Lookup(t, name) THEN Fail("template: no template associated", <<>>)
    ELSE walk(t, t.tmpl[name], 1, data, <<>>)

\* A destination writer accepts up to limit bytes of a Write (all of them
\* when limit is negative) and, when it stops early, reports an error of its
\* own (err) or none
Write(w, p) ==
    LET m == IF w.limit < 0 THEN Len(p) ELSE Min(w.limit, Len(p))
    IN [n |-> m, err |-> IF m < Len(p) /\ w.err THEN "write failed" ELSE "nil"]

\* bytes.Buffer.WriteTo: one Write of the whole content, none when empty
WriteTo(buffer, w) ==
    IF Len(buffer) = 0 THEN [wrote |-> <<>>, err |-> "nil", writes |-> 0]
    ELSE LET r == Write(w, buffer)
         IN [wrote |-> SubSeq(buffer, 1, r.n),
             err |-> IF r.err # "nil" THEN r.err
                     ELSE IF r.n # Len(buffer) THEN "short write" ELSE "nil",
             writes |-> 1]

\* Execute that renders straight into the destination
ExecuteUnbuffered(t, writer, name, data) ==
    LET r == ExecuteTemplate(t, name, data)
        w == WriteTo(r.out, writer)
    IN [err |-> IF r.err # "nil" THEN r.err ELSE w.err,
        rendered |-> r.out, dest |-> w.wrote, writes |-> w.writes, t |-> t]

\* Execute that also records the executed name in t.names
ExecuteRecording(t, writer, name, data) ==
    LET r == ExecuteTemplate(t, name, data)
        w == WriteTo(r.out, writer)
    IN IF r.err # "nil"
       THEN [err |-> r.err, rendered |-> r.out, dest |-> <<>>, writes |-> 0, t |-> t]
       ELSE [err |-> w.err, rendered |-> r.out, dest |-> w.wrote, writes |-> w.writes,
             t |-> [t EXCEPT !.names = Append(@, name)]]

\* template.go Execute: render into a buffer; on an error return it; else
\* buffer.WriteTo(writer).  dest is what the destination received, t the
\* Template after the call.
ExecuteOf(t, writer, name, data) ==
    LET r == ExecuteTemplate(t, name, data)
    IN IF r.err # "nil"
       THEN [err |-> r.err, rendered |-> r.out, dest |-> <<>>, writes |-> 0, t |-> t]
       ELSE LET w == WriteTo(r.out, writer)
            IN [err |-> w.err, rendered |-> r.out, dest |-> w.wrote,
                writes |-> w.writes, t |-> t]

\* template.go Names: a copy of t.names (slices.Clone), owned by the caller
NamesOf(t) == [taken |-> TRUE, names |-> t.names]

-----------------------------------------------------------------------------
(* Bounds and inputs *)

\* the most bytes a failing destination writer accepts
MaxAccept == 1

Writers ==
    {[limit |-> -1, err |-> FALSE]}
    \cup {[limit |-> l, err |-> e] : l \in 0..MaxAccept, e \in BOOLEAN}

Inputs == {StrVal(hi), StrVal(<<97, 34>>), IntVal(7), BytesVal(hi)}

\* the names Execute is called with: the units and two that are none
ExecuteNames(tt) == Range(tt.names) \cup {<<"missing.tmpl">>, <<"sub">>}

NoCall == [called |-> FALSE, name |-> <<>>, data |-> IntVal(0),
           writer |-> [limit |-> -1, err |-> FALSE],
           err |-> "nil", rendered |-> <<>>, dest |-> <<>>, writes |-> 0]

NoBuild == [called |-> FALSE, result |-> NilTemplate, err |-> "nil",
            t |-> NilTemplate, log |-> <<>>]

NoSnapshot == [taken |-> FALSE, names |-> <<>>]

-----------------------------------------------------------------------------
(* The builder and the template, one caller.  A builder goes from          *)
(* NewTemplate() through its setters to one Build; the Template that Build *)
(* returns keeps no reference to the builder and is then used for any      *)
(* number of Execute and Names calls.                                      *)

InitTemplate ==
    /\ b = [logger |-> "nil", fsys |-> "nil", dir |-> <<>>]
    /\ tpl = NilTemplate
    /\ setCalls = {}
    /\ built = NoBuild
    /\ snapshot = NoSnapshot
    /\ last = NoCall

SetLogger(value) ==
    /\ ~built.called
    /\ b' = [b EXCEPT !.logger = value]
    /\ setCalls' = setCalls \cup {"SetLogger"}
    /\ UNCHANGED <<tpl, built, snapshot, last, calls, buffers, sh, push>>

SetFS(value) ==
    /\ ~built.called
    /\ b' = [b EXCEPT !.fsys = value]
    /\ setCalls' = setCalls \cup {"SetFS"}
    /\ UNCHANGED <<tpl, built, snapshot, last, calls, buffers, sh, push>>

SetDir(value) ==
    /\ ~built.called
    /\ b' = [b EXCEPT !.dir = value]
    /\ setCalls' = setCalls \cup {"SetDir"}
    /\ UNCHANGED <<tpl, built, snapshot, last, calls, buffers, sh, push>>

Build ==
    /\ ~built.called
    /\ LET r == BuildOf(b)
       IN /\ built' = [called |-> TRUE, result |-> r.result, err |-> r.err,
                       t |-> r.t, log |-> r.log]
          /\ tpl' = r.result
    /\ snapshot' = NoSnapshot
    /\ last' = NoCall
    /\ UNCHANGED <<b, setCalls, calls, buffers, sh, push>>

Execute(writer, name, data) ==
    /\ ~tpl.nil
    /\ LET r == ExecuteOf(tpl, writer, name, data)
       IN /\ last' = [called |-> TRUE, name |-> name, data |-> data, writer |-> writer,
                      err |-> r.err, rendered |-> r.rendered, dest |-> r.dest,
                      writes |-> r.writes]
          /\ tpl' = r.t
    /\ UNCHANGED <<b, setCalls, built, snapshot, calls, buffers, sh, push>>

Names ==
    /\ ~tpl.nil
    /\ snapshot' = NamesOf(tpl)
    /\ UNCHANGED <<b, tpl, setCalls, built, last, calls, buffers, sh, push>>

\* the caller overwrites the first element of the list Names gave it
CallerOverwrites ==
    /\ snapshot.taken
    /\ Len(snapshot.names) > 0
    /\ snapshot.names[1] # <<"mine">>
    /\ snapshot' = [snapshot EXCEPT !.names[1] = <<"mine">>]
    /\ UNCHANGED <<b, tpl, setCalls, built, last, calls, buffers, sh, push>>

NextTemplate ==
    \/ \E value \in Loggers : SetLogger(value)
    \/ \E value \in Filesystems : SetFS(value)
    \/ \E value \in Dirs : SetDir(value)
    \/ Build
    \/ \E writer \in Writers, data \in Inputs :
          \E name \in ExecuteNames(tpl) : Execute(writer, name, data)
    \/ Names
    \/ CallerOverwrites

InitIdle ==
    /\ calls = <<>>
    /\ buffers = <<>>
    /\ sh = <<>>
    /\ push = <<>>

Init == InitTemplate /\ InitIdle

Next == NextTemplate

Spec == Init /\ [][Next]_vars

-----------------------------------------------------------------------------
(* Properties of the builder and the template *)

WriterErrors == {"write failed", "short write"}

\* the last Execute failed before anything was handed to the destination
RenderFailed == last.called /\ last.err \notin ({"nil"} \cup WriterErrors)

\* C1 as stated: whatever the outcome of Execute, the destination holds the
\* complete rendered output or no bytes at all, never a proper prefix.
C1_FullOrNothing ==
    last.called =>
        \/ last.dest = <<>>
        \/ ~RenderFailed /\ last.dest = last.rendered

\* C1 amended: when rendering fails (unknown name, rendering error) the
\* destination gets no Write and no byte; when it succeeds the whole output
\* is offered in one Write, and the destination holds all of it unless its
\* own Write took fewer bytes than offered, when it holds the prefix it took.
C1_FullOrNothingUnlessWriterFails ==
    last.called =>
        /\ last.writes <= 1
        /\ RenderFailed => last.dest = <<>> /\ last.writes = 0
        /\ last.err = "nil" => last.dest = last.rendered
        /\ last.err \in WriterErrors =>
              /\ IsPrefix(last.dest, last.rendered)
              /\ Len(last.dest) = last.writer.limit
              /\ Len(last.dest) < Len(last.rendered)
              /\ last.writes = 1

\* a rendering error after the buffer already held text, nothing written
C1_Witness ==
    /\ RenderFailed
    /\ Len(last.rendered) > 0
    /\ last.dest = <<>>

\* C2: Execute with a name that is not a unit registered at build time
\* returns a non-nil (template not found) error and writes nothing.
C2_UnknownName ==
    last.called /\ last.name \notin DOMAIN built.result.tmpl =>
        /\ last.err = "template: no template associated"
        /\ last.dest = <<>>
        /\ last.writes = 0

C2_Witness ==
    /\ last.called
    /\ last.name = <<"missing.tmpl">>
    /\ Len(built.result.names) > 1
    /\ last.err # "nil"

\* the unit's text reaches, after literal text only, an execute of a name
\* that is not in the template set
ExecutesAbsent(tt, name) ==
    /\ name \in DOMAIN tt.tmpl
    /\ \E i \in 1..Len(tt.tmpl[name]) :
          /\ tt.tmpl[name][i].k = "execute"
          /\ tt.tmpl[name][i].name \notin DOMAIN tt.tmpl
          /\ \A j \in 1..(i - 1) : tt.tmpl[name][j].k = "text"

\* C3: a nested execute of an absent name fails with a template-not-found
\* error, which Execute returns, and the destination gets zero bytes.
C3_NestedNotFound ==
    last.called /\ ExecutesAbsent(tpl, last.name) =>
        /\ last.err = "template: no template associated"
        /\ last.dest = <<>>
        /\ last.writes = 0

\* C4: Build on a builder whose logger or filesystem was never set returns
\* no Template and a configuration error, without any access to the source
\* filesystem.
C4_MissingConfiguration ==
    built.called /\ ("SetLogger" \notin setCalls \/ "SetFS" \notin setCalls) =>
        /\ built.result.nil
        /\ tpl.nil
        /\ built.err \in {"logger is mandatory", "filesystem is mandatory"}
        /\ built.log = <<>>

C4_Witness ==
    /\ built.called
    /\ setCalls = {"SetFS", "SetDir"}
    /\ b.fsys = "manifests"
    /\ b.dir = <<"sub">>
    /\ built.err = "logger is mandatory"

\* the regular files of the tree below the effective root, by their path
\* relative to it ("." for a root that is itself a file)
RegularFiles(bb) ==
    LET tree == Tree(bb.fsys)
        root == IF bb.dir \in {<<>>, <<".">>} THEN <<>> ELSE bb.dir
    IN {IF p = root THEN <<".">> ELSE SubSeq(p, Len(root) + 1, Len(p)) :
            p \in {q \in DOMAIN tree : /\ tree[q].kind = "file"
                                       /\ Len(q) >= Len(root)
                                       /\ SubSeq(q, 1, Len(root)) = root}}

\* C5: after a successful Build, Names() lists exactly the relative paths of
\* the regular files below the effective root, each once, no directory.
C5_NamesAreTheFiles ==
    ~tpl.nil =>
        /\ NoDuplicates(NamesOf(tpl).names)
        /\ Range(NamesOf(tpl).names) = RegularFiles(b)
        /\ snapshot.taken /\ <<"mine">> \notin Range(snapshot.names) =>
              snapshot.names = tpl.names

C5_Witness ==
    /\ ~tpl.nil
    /\ snapshot.taken
    /\ b.dir = <<>>
    /\ <<"sub", "env.tmpl">> \in Range(snapshot.names)
    /\ Len(snapshot.names) = 6

\* the names Build read, in the order it read them
RECURSIVE readFiles(_)
readFiles(log) ==
    IF log = <<>> THEN <<>>
    ELSE IF Head(log).op = "ReadFile" THEN <<Head(log).name>> \o readFiles(Tail(log))
    ELSE readFiles(Tail(log))

\* C6: Build is fail-fast and all-or-nothing: on the first read or parse
\* error no later file is read or parsed and no Template is returned; a
\* Template is returned only after every discovered file was parsed.
C6_FailFast ==
    built.called =>
        LET reads == readFiles(built.log)
        IN /\ built.err # "nil" <=> built.result.nil
           /\ built.result.nil => tpl.nil
           /\ IsPrefix(reads, built.t.names)
           /\ built.err \in {"read: input/output error", "template: syntax error"} =>
                 /\ Len(reads) >= 1
                 /\ DOMAIN built.t.tmpl = Range(SubSeq(reads, 1, Len(reads) - 1))
           /\ ~built.result.nil =>
                 /\ reads = built.result.names
                 /\ DOMAIN built.result.tmpl = Range(built.result.names)

\* a syntax error in the second of four files, the first one parsed, the
\* last two never read
C6_Witness ==
    /\ built.called
    /\ built.err = "template: syntax error"
    /\ Len(built.t.names) = 4
    /\ readFiles(built.log) = <<<<"a.tmpl">>, <<"b.tmpl">>>>
    /\ DOMAIN built.t.tmpl = {<<"a.tmpl">>}
    /\ tpl.nil

\* the outcome of rendering, whatever the destination did
Outcome(l) == IF l.err \in WriterErrors THEN "nil" ELSE l.err

\* C7: Execute never changes the Template: its names, units and function
\* table stay as Build left them, and repeating an Execute with the same
\* name and input renders the same output or fails with the same error.
C7_ExecuteDoesNotMutate ==
    [][built.called =>
          /\ tpl' = built.result
          /\ (last.called /\ last'.called
              /\ last'.name = last.name /\ last'.data = last.data) =>
                 /\ last'.rendered = last.rendered
                 /\ Outcome(last') = Outcome(last)]_vars

\* an Execute that went through execute and json, the Template as built
C7_Witness ==
    /\ last.called
    /\ last.name = <<"wrap.tmpl">>
    /\ last.err = "nil"
    /\ Len(last.rendered) > 2
    /\ tpl = built.result
    /\ snapshot.taken

-----------------------------------------------------------------------------
(* Concurrent Execute calls on one built Template.  Each caller has its    *)
(* own destination; a step of a caller renders one node of its unit.       *)

\* the number of concurrent callers
NumCallers == 2

Callers == 1..NumCallers

ConcurrentNames == {<<"outer.tmpl">>, <<"sub", "broken.tmpl">>, <<"missing.tmpl">>}

ConcurrentInputs == {StrVal(hi), IntVal(7)}

\* a destination that takes every byte
Discard == [limit |-> -1, err |-> FALSE]

Idle == [pc |-> "idle", name |-> <<>>, data |-> IntVal(0), pos |-> 0,
         err |-> "nil", dest |-> <<>>, overlapped |-> FALSE]

\* template.go:167, buffer := &bytes.Buffer{}: the buffer of a call is its own
sharedBuffer(p) == 1
bufferOf(p) == p

ManifestsBuilder == [logger |-> "sink", fsys |-> "manifests", dir |-> <<>>]

InitConcurrent ==
    /\ b = ManifestsBuilder
    /\ setCalls = {"SetLogger", "SetFS"}
    /\ built = [called |-> TRUE, result |-> BuildOf(ManifestsBuilder).result,
                err |-> BuildOf(ManifestsBuilder).err, t |-> BuildOf(ManifestsBuilder).t,
                log |-> BuildOf(ManifestsBuilder).log]
    /\ tpl = BuildOf(ManifestsBuilder).result
    /\ snapshot = NoSnapshot
    /\ last = NoCall
    /\ calls = [p \in Callers |-> Idle]
    /\ buffers = [p \in Callers |-> <<>>]
    /\ sh = <<>>
    /\ push = <<>>

\* Execute is entered: a fresh buffer, and ExecuteTemplate's Lookup
CallExecute(p, name, data) ==
    /\ calls[p].pc = "idle"
    /\ buffers' = [buffers EXCEPT ![bufferOf(p)] = <<>>]
    /\ calls' = [calls EXCEPT ![p] =
                    [pc |-> IF Lookup(tpl, name) THEN "render" ELSE "returned",
                     name |-> name, data |-> data, pos |-> 1,
                     err |-> IF Lookup(tpl, name) THEN "nil"
                             ELSE "template: no template associated",
                     dest |-> <<>>, overlapped |-> FALSE]]
    /\ UNCHANGED <<b, tpl, setCalls, built, snapshot, last, sh, push>>

\* the next node of the unit is rendered into the call's buffer; an error
\* ends the call
RenderNode(p) ==
    /\ calls[p].pc = "render"
    /\ calls[p].pos <= Len(tpl.tmpl[calls[p].name])
    /\ LET node == tpl.tmpl[calls[p].name][calls[p].pos]
           r == walk(tpl, <<node>>, 1, calls[p].data, buffers[bufferOf(p)])
       IN /\ buffers' = [buffers EXCEPT ![bufferOf(p)] = r.out]
          /\ calls' = [calls EXCEPT
                 ![p].pos = @ + 1,
                 ![p].err = r.err,
                 ![p].pc = IF r.err # "nil" THEN "returned" ELSE "render",
                 ![p].overlapped = @ \/ \E q \in Callers \ {p} : calls[q].pc = "render"]
    /\ UNCHANGED <<b, tpl, setCalls, built, snapshot, last, sh, push>>

\* rendering is over: buffer.WriteTo(writer)
WriteOut(p) ==
    /\ calls[p].pc = "render"
    /\ calls[p].pos > Len(tpl.tmpl[calls[p].name])
    /\ LET w == WriteTo(buffers[bufferOf(p)], Discard)
       IN calls' = [calls EXCEPT ![p].pc = "returned", ![p].err = w.err,
                                 ![p].dest = w.wrote]
    /\ UNCHANGED <<b, tpl, setCalls, built, snapshot, last, buffers, sh, push>>

\* the caller takes the result and is free to call again
Return(p) ==
    /\ calls[p].pc = "returned"
    /\ calls' = [calls EXCEPT ![p] = Idle]
    /\ UNCHANGED <<b, tpl, setCalls, built, snapshot, last, buffers, sh, push>>

NextConcurrent ==
    \E p \in Callers :
        \/ \E name \in ConcurrentNames, data \in ConcurrentInputs :
              CallExecute(p, name, data)
        \/ RenderNode(p)
        \/ WriteOut(p)
        \/ Return(p)

SpecConcurrent == InitConcurrent /\ [][NextConcurrent]_vars

\* C8: under every interleaving of concurrent Execute calls, each caller's
\* destination and error are those of the same call run alone.
C8_AsIfSequential ==
    \A p \in Callers :
        calls[p].pc = "returned" =>
            LET alone == ExecuteOf(built.result, Discard, calls[p].name, calls[p].data)
            IN /\ calls[p].err = alone.err
               /\ calls[p].dest = alone.dest
               /\ tpl = built.result

\* two calls with different inputs, rendered in overlapping steps, both done
C8_Witness ==
    /\ \A p \in {1, 2} : /\ calls[p].pc = "returned"
                         /\ calls[p].overlapped
                         /\ calls[p].name = <<"outer.tmpl">>
                         /\ calls[p].err = "nil"
    /\ calls[1].data # calls[2].data
    /\ calls[1].dest # calls[2].dest

-----------------------------------------------------------------------------
(* deploy-spoke/wait_for_spoke.sh *)

\* wait_for_spoke.sh:37
wait_time == 60

\* the validate_condition calls of the main part, in order
Conditions == <<"bmh errorCount", "bmh provisioning.state", "agent approved",
                "agentclusterinstall stateInfo">>

\* the numbers of arguments the script is started with
ArgCounts == {0, 1, 2}

InitWait ==
    /\ \E argc \in ArgCounts :
          sh = [pc |-> "usage", argc |-> argc, cond |-> 0, timeout |-> 0,
                ready |-> FALSE, status |-> -1, polls |-> 0, polled |-> 0,
                verified |-> <<>>]
    /\ InitTemplate
    /\ calls = <<>>
    /\ buffers = <<>>
    /\ push = <<>>

\* lines 29-32: anything but one argument is a usage error
CheckUsage ==
    /\ sh.pc = "usage"
    /\ sh' = IF sh.argc # 1 THEN [sh EXCEPT !.pc = "exited", !.status = 1]
             ELSE [sh EXCEPT !.pc = "project"]
    /\ UNCHANGED <<b, tpl, setCalls, built, snapshot, last, calls, buffers, push>>

\* validate_condition is entered (lines 9-11): timeout=0, ready=false
enter(s, cond) ==
    [s EXCEPT !.cond = cond, !.timeout = 0, !.ready = FALSE, !.polls = 0,
              !.pc = IF 0 < wait_time THEN "poll" ELSE "after"]

\* line 46, oc project, under errexit: a failure ends the script
OcProject(ok) ==
    /\ sh.pc = "project"
    /\ sh' = IF ok THEN enter(sh, 1) ELSE [sh EXCEPT !.pc = "exited", !.status = 1]
    /\ UNCHANGED <<b, tpl, setCalls, built, snapshot, last, calls, buffers, push>>

\* lines 11-16, one pass of the loop: the condition matches (ready=true,
\* break) or not (sleep, timeout+1, and the loop test again).  polls counts
\* the polls of the condition under way, polled is the condition polled last.
Poll(matches) ==
    /\ sh.pc = "poll"
    /\ sh' = IF matches
             THEN [sh EXCEPT !.ready = TRUE, !.pc = "after",
                             !.polls = @ + 1, !.polled = sh.cond]
             ELSE [sh EXCEPT !.timeout = @ + 1,
                             !.pc = IF sh.timeout + 1 < wait_time THEN "poll" ELSE "after",
                             !.polls = @ + 1, !.polled = sh.cond]
    /\ UNCHANGED <<b, tpl, setCalls, built, snapshot, last, calls, buffers, push>>

\* lines 18-23: what follows the loop
afterLoopNoExit(ready) == "verified"
afterLoop(ready) == IF ready = FALSE THEN "exit 1" ELSE "verified"

\* lines 18-23 and the next line of the main part (48-53)
Verdict ==
    /\ sh.pc = "after"
    /\ sh' = IF afterLoop(sh.ready) = "exit 1"
             THEN [sh EXCEPT !.pc = "exited", !.status = 1]
             ELSE IF sh.cond < Len(Conditions)
             THEN enter([sh EXCEPT !.verified = Append(@, [cond |-> sh.cond, ready |-> sh.ready])],
                        sh.cond + 1)
             ELSE [sh EXCEPT !.verified = Append(@, [cond |-> sh.cond, ready |-> sh.ready]),
                             !.pc = "EOF", !.status = 0]
    /\ UNCHANGED <<b, tpl, setCalls, built, snapshot, last, calls, buffers, push>>

NextWait ==
    \/ CheckUsage
    \/ \E ok \in BOOLEAN : OcProject(ok)
    \/ \E matches \in BOOLEAN : Poll(matches)
    \/ Verdict

\* the shell runs the script's next command whenever there is one
SpecWait == InitWait /\ [][NextWait]_vars /\ WF_vars(NextWait)

\* the conditions verified so far are the first ones, in order, each seen
\* to match
VerifiedInOrder(n) ==
    sh.verified = [i \in 1..n |-> [cond |-> i, ready |-> TRUE]]

\* the condition polled last is the one under way, or the one before it
\* until the first poll; no condition is polled more than wait_time times
WaitPollsInOrder ==
    /\ sh.polls <= wait_time
    /\ sh.polled = (IF sh.polls > 0 \/ sh.cond = 0 THEN sh.cond ELSE sh.cond - 1)
    /\ sh.pc \in {"poll", "after", "exited"} /\ sh.cond > 0 => VerifiedInOrder(sh.cond - 1)

\* a condition that never matched in its polls ends the script with status
\* 1; no later condition was polled
WaitTimeoutExits ==
    sh.pc = "exited" /\ sh.cond > 0 =>
        /\ sh.status = 1
        /\ ~sh.ready
        /\ sh.polls = wait_time
        /\ sh.polled = sh.cond

\* the final output is reached only with all four conditions verified, each
\* by a poll that matched
WaitEOFOnlyVerified ==
    sh.pc = "EOF" => VerifiedInOrder(4) /\ sh.status = 0

\* C9: the four conditions are checked in order, each polled at most
\* wait_time times; the first that never matches ends the script with status
\* 1 before any later one is checked; the final output needs all four
\* verified; the script always terminates.
C9_WaitForSpoke ==
    /\ [](WaitPollsInOrder /\ WaitTimeoutExits /\ WaitEOFOnlyVerified)
    /\ <>(sh.pc \in {"exited", "EOF"})

\* the third condition ran out of polls after two were verified
C9_Witness ==
    /\ sh.pc = "exited"
    /\ sh.cond = 3
    /\ Len(sh.verified) = 2
    /\ sh.timeout = wait_time
    /\ sh.status = 1

-----------------------------------------------------------------------------
(* The manifest push script (Pushes custom manifests to force              *)
(* InfrastructureTopology HighlyAvailable)                                 *)

\* the most failed POSTs in a row that are followed
MaxRetry == 30

\* what curl | jq -r ".[0].id" prints: the id of the first cluster, "null"
\* when the list is empty, nothing when curl fails or the answer is no list
LookupOutputs == {"null", "", "0a1b"}

\* the manifests, in the order of their retry loops
Manifests_ == <<"cluster-infrastructure-02-config.yml", "54-scheduler-override.yaml">>

InitPush ==
    /\ push = [pc |-> "lookup", CLUSTER_ID |-> "null", retry |-> 0, EXIT |-> 0,
               posted |-> <<>>, accepted |-> {}]
    /\ InitTemplate
    /\ calls = <<>>
    /\ buffers = <<>>
    /\ sh = <<>>

\* [ ${CLUSTER_ID} == "null" ], unquoted: true for null; false for an id;
\* with an empty value the test is [ == "null" ], an error (status 2),
\* and the while loop ends as for false
testIsNull(id) == id = "null"

\* lines 12-14, one pass of the loop
LookupCluster(output) ==
    /\ push.pc = "lookup"
    /\ testIsNull(push.CLUSTER_ID)
    /\ push' = [push EXCEPT !.CLUSTER_ID = output]
    /\ UNCHANGED <<b, tpl, setCalls, built, snapshot, last, calls, buffers, sh>>

\* the loop ends; lines 17-19: common.sh is sourced, retry=1
LookupOver ==
    /\ push.pc = "lookup"
    /\ ~testIsNull(push.CLUSTER_ID)
    /\ push' = [push EXCEPT !.pc = "post", !.retry = 1]
    /\ UNCHANGED <<b, tpl, setCalls, built, snapshot, last, calls, buffers, sh>>

\* the manifest of the retry loop under way
file(s) == Manifests_[Len(s.posted) + 1]

\* lines 20-36 and 40-56, one pass of a retry loop: the POST, then retry=0
\* when curl succeeded, else sleep 2 and retry+1
Post(ok) ==
    /\ push.pc = "post"
    /\ push.retry # 0
    /\ ok \/ push.retry < MaxRetry
    /\ push' = [push EXCEPT
                   !.EXIT = IF ok THEN 0 ELSE 22,
                   !.retry = IF ok THEN 0 ELSE @ + 1,
                   !.accepted = IF ok THEN @ \cup {file(push)} ELSE @]
    /\ UNCHANGED <<b, tpl, setCalls, built, snapshot, last, calls, buffers, sh>>

\* a retry loop ends (retry is 0): the next loop with retry=1, or the end
LoopOver ==
    /\ push.pc = "post"
    /\ push.retry = 0
    /\ push' = IF Len(push.posted) + 1 < Len(Manifests_)
               THEN [push EXCEPT !.posted = Append(@, file(push)), !.retry = 1]
               ELSE [push EXCEPT !.posted = Append(@, file(push)), !.pc = "done"]
    /\ UNCHANGED <<b, tpl, setCalls, built, snapshot, last, calls, buffers, sh>>

NextPush ==
    \/ \E output \in LookupOutputs : LookupCluster(output)
    \/ LookupOver
    \/ \E ok \in BOOLEAN : Post(ok)
    \/ LoopOver

SpecPush == InitPush /\ [][NextPush]_vars

\* a cluster id was obtained: the lookup printed an id
ClusterIdObtained == push.CLUSTER_ID \notin {"null", ""}

\* C10: no manifest is POSTed before a cluster id was obtained; the second
\* manifest is POSTed only after the first was accepted; a retry loop ends
\* only on an accepted POST; the script ends only when the lookup and both
\* POSTs succeeded.
C10_PushAfterClusterId ==
    /\ push.pc \in {"post", "done"} => ClusterIdObtained
    /\ push.pc = "post" /\ Len(push.posted) = 1 => Manifests_[1] \in push.accepted
    /\ push.pc = "post" /\ push.retry = 0 => file(push) \in push.accepted
    /\ push.pc = "done" => ClusterIdObtained /\ push.accepted = Range(Manifests_)

====
